---- MODULE Spec2Model ----
(***************************************************************************)
(* GH_CLI, the wrapper around the gh command-line tool                     *)
(* (src/pyghcli/gh_wrapper.py).  The client object is built by __init__ in *)
(* five steps (locate gh, api /user, take the login, api                   *)
(* /users/<login>/repos, build the permission index) and then serves       *)
(* run_gh_command, run_gh_api_get, run_gh_api_post and                     *)
(* pull_all_user_repos.  An exception that nothing catches ends the        *)
(* process.  The child process is the environment: on every invocation it  *)
(* either cannot be started or prints an arbitrary text of Stdouts.        *)
(***************************************************************************)
EXTENDS Integers, Sequences, FiniteSets, TLC

\* Longest repository list the wrapped tool prints in this model.
MaxRepos == 2

(***************************************************************************)
(* Python values.  Every value is a record of one shape: a dict keeps its  *)
(* members in insertion order, a list keeps its items, a float keeps its   *)
(* literal.  A scalar member value is tagged with its JSON type, so the    *)
(* string "200" and the number 200 are different values.                   *)
(***************************************************************************)
PyNone == [kind |-> "None", members |-> <<>>, items |-> <<>>, lit |-> ""]

PyDict(members) == [kind |-> "dict", members |-> members, items |-> <<>>, lit |-> ""]

PyList(items) == [kind |-> "list", members |-> <<>>, items |-> items, lit |-> ""]

PyFloat(lit) == [kind |-> "float", members |-> <<>>, items |-> <<>>, lit |-> lit]

JStr(s) == [t |-> "str", s |-> s]

JInt(s) == [t |-> "int", s |-> s]

Member(k, v) == [k |-> k, v |-> v]

Keys(d) == {d.members[i].k : i \in DOMAIN d.members}

\* d[key] of a dict that has the key
Get(d, key) == d.members[CHOOSE i \in DOMAIN d.members : d.members[i].k = key].v

(***************************************************************************)
(* What the wrapped tool can print.                                        *)
(***************************************************************************)
Logins == {"octocat", "hubot"}

Statuses == {JStr("200"), JStr("201"), JStr("204"), JStr("404"), JStr("422"),
             JStr("500"), JInt("200")}

FullNames == {"a/b", "octocat/repo1"}

Perm(name, value) == [name |-> name, value |-> value]

PermDicts == {<<Perm("admin", TRUE)>>, <<Perm("pull", TRUE), Perm("push", FALSE)>>}

RepoRecords == [full_name : FullNames, permissions : PermDicts]

RECURSIVE SeqsUpTo(_, _)
SeqsUpTo(S, n) ==
    IF n = 0 THEN {<<>>}
    ELSE LET shorter == SeqsUpTo(S, n - 1)
         IN  shorter \cup {Append(s, x) : s \in {t \in shorter : Len(t) = n - 1}, x \in S}

JsonObjects ==
    {PyDict(l \o s) :
        l \in {<<>>} \cup {<<Member("login", JStr(n))>> : n \in Logins},
        s \in {<<>>} \cup {<<Member("status", v)>> : v \in Statuses}}

JsonLists == {PyList(items) : items \in SeqsUpTo(RepoRecords, MaxRepos)}

JsonValues == JsonObjects \cup JsonLists \cup {PyFloat("NaN")}

\* json.dumps(value, separators=(",", ":")): the text the tool prints for a value
Bool(b) == IF b THEN "true" ELSE "false"

Quote(s) == "\"" \o s \o "\""

DumpScalar(v) == IF v.t = "str" THEN Quote(v.s) ELSE v.s

RECURSIVE DumpPerms(_)
DumpPerms(ps) ==
    IF ps = <<>> THEN ""
    ELSE (IF Len(ps) = 1 THEN "" ELSE DumpPerms(SubSeq(ps, 1, Len(ps) - 1)) \o ",")
         \o Quote(ps[Len(ps)].name) \o ":" \o Bool(ps[Len(ps)].value)

DumpRepo(r) ==
    "{\"full_name\":" \o Quote(r.full_name) \o ",\"permissions\":{"
    \o DumpPerms(r.permissions) \o "}}"

RECURSIVE DumpItems(_)
DumpItems(items) ==
    IF items = <<>> THEN ""
    ELSE (IF Len(items) = 1 THEN "" ELSE DumpItems(SubSeq(items, 1, Len(items) - 1)) \o ",")
         \o DumpRepo(items[Len(items)])

RECURSIVE DumpMembers(_)
DumpMembers(ms) ==
    IF ms = <<>> THEN ""
    ELSE (IF Len(ms) = 1 THEN "" ELSE DumpMembers(SubSeq(ms, 1, Len(ms) - 1)) \o ",")
         \o Quote(ms[Len(ms)].k) \o ":" \o DumpScalar(ms[Len(ms)].v)

Dumps(v) ==
    CASE v.kind = "dict" -> "{" \o DumpMembers(v.members) \o "}"
      [] v.kind = "list" -> "[" \o DumpItems(v.items) \o "]"
      [] OTHER -> v.lit

JsonTexts == {[text |-> Dumps(v), value |-> v] : v \in JsonValues}

\* Output of the tool that is no JSON document: nothing, help text, a cut-off document
NonJsonTexts == {"", "Work seamlessly with GitHub from the command line.", "{\"login\":"}

Stdouts == {e.text : e \in JsonTexts} \cup NonJsonTexts

\* json.loads(text): the parsed value, or JSONDecodeError
json_loads(text) ==
    LET documents == {e \in JsonTexts : e.text = text}
    IN  IF documents # {}
        THEN [exc |-> "", value |-> (CHOOSE e \in documents : TRUE).value]
        ELSE [exc |-> "JSONDecodeError", value |-> PyNone]

(***************************************************************************)
(* The client object and the process around it.                            *)
(***************************************************************************)
VARIABLES
    pc,               \* where the program is: a step of __init__, "ready", "returned",
                      \* "raised" (an exception ended it), "exited" (sys.exit ended it)
    attrs,            \* the attributes assigned on self so far
    gh_cli_path,      \* self.gh_cli_path
    _user,            \* self._user
    username,         \* self.username
    repos_raw,        \* self.repos_raw
    repo_perm_index,  \* self.repo_perm_index
    exit_code,        \* the process's exit status, -1 while it runs
    argv,             \* the argument vector of the last gh invocation, <<>> before the first
    child,            \* what the last child process did
    result,           \* what the last call returned
    raised,           \* the exception that left the last call, "" when it returned
    uncaught,         \* the exception that ended the process, "" while none has
    log,              \* the log records the last call wrote
    steps             \* the steps __init__ has performed, each with the text its child printed

vars == <<pc, attrs, gh_cli_path, _user, username, repos_raw, repo_perm_index,
          exit_code, argv, child, result, raised, uncaught, log, steps>>

client == <<attrs, gh_cli_path, _user, username, repos_raw, repo_perm_index>>

api_version_header == "X-GitHub-API-Version:" \o "2022-11-28"

EmptyIndex == [k \in {} |-> <<>>]

NoChild == [started |-> FALSE, error |-> "", stdout |-> ""]

\* subprocess.run: the child cannot be started, or it runs and prints a text
Children ==
    {[started |-> FALSE, error |-> "FileNotFoundError", stdout |-> ""]}
    \cup {[started |-> TRUE, error |-> "", stdout |-> t] : t \in Stdouts}

\* subprocess.check_output(['which', 'gh']): the path, a non-zero exit, or no which at all
WhichOutcomes ==
    {[exc |-> "", path |-> "/usr/bin/gh"],
     [exc |-> "CalledProcessError", path |-> ""],
     [exc |-> "FileNotFoundError", path |-> ""]}

LogRecord(level, line, command, error, args) ==
    [level |-> level, line |-> line, command |-> command, error |-> error, args |-> args]

\* log_cli_error(command=..., error=...): no caller passes *args, so args is ()
log_cli_error(command, error) == LogRecord("ERROR", 97, command, error, <<>>)

\* The classes an exception is an instance of
Mro(exc) ==
    CASE exc = "JSONDecodeError" -> {"JSONDecodeError", "ValueError", "Exception"}
      [] exc = "ValueError" -> {"ValueError", "Exception"}
      [] exc = "CalledProcessError" -> {"CalledProcessError", "Exception"}
      [] exc = "FileNotFoundError" -> {"FileNotFoundError", "OSError", "Exception"}
      [] OTHER -> {exc, "Exception"}

\* Variant: only the subprocess error is caught
ExceptClausesNarrow == <<[class |-> "CalledProcessError", does |-> "log_cli_error"]>>

\* The except clauses of run_gh_command, in the order they are written
ExceptClauses ==
    <<[class |-> "CalledProcessError", does |-> "log_cli_error"],
      [class |-> "ValueError", does |-> "log_cli_error"],
      [class |-> "JSONDecodeError", does |-> "debug"],
      [class |-> "Exception", does |-> "log_cli_error"]>>

\* The first clause that catches exc, 0 when none does
Handler(exc) ==
    LET hits == {i \in DOMAIN ExceptClauses : ExceptClauses[i].class \in Mro(exc)}
    IN  IF hits = {} THEN 0 ELSE CHOOSE i \in hits : \A j \in hits : i <= j

\* Variant: the case '204' is missing, so "204" falls to the default case
MatchStatusNo204(status) ==
    CASE status = JStr("200") -> "success"
      [] status = JStr("201") -> "success"
      [] status = JStr("404") -> "raise"
      [] status = JStr("422") -> "raise"
      [] OTHER -> "log_and_raise"

\* Variant: the case '422' logs success instead of raising
MatchStatus422Ok(status) ==
    CASE status = JStr("200") -> "success"
      [] status = JStr("201") -> "success"
      [] status = JStr("204") -> "success"
      [] status = JStr("422") -> "success"
      [] status = JStr("404") -> "raise"
      [] OTHER -> "log_and_raise"

\* match output['status']
MatchStatus(status) ==
    CASE status = JStr("200") -> "success"
      [] status = JStr("201") -> "success"
      [] status = JStr("204") -> "success"
      [] status = JStr("404") -> "raise"
      [] status = JStr("422") -> "raise"
      [] OTHER -> "log_and_raise"

\* The try block of run_gh_command
TryBody(command, stdout) ==
    LET parsed == json_loads(stdout)
        output == parsed.value
        running == LogRecord("DEBUG", 127, command, "", <<>>)
    IN  IF parsed.exc # ""
        THEN [exc |-> parsed.exc, value |-> PyNone, log |-> <<>>]
        ELSE IF output.kind = "dict" /\ "status" \in Keys(output)
        THEN CASE MatchStatus(Get(output, "status")) = "success" ->
                    [exc |-> "", value |-> output,
                     log |-> <<running, LogRecord("INFO", 131, command, "", <<>>)>>]
               [] MatchStatus(Get(output, "status")) = "raise" ->
                    [exc |-> "ValueError", value |-> PyNone, log |-> <<running>>]
               [] OTHER ->
                    [exc |-> "ValueError", value |-> PyNone,
                     log |-> <<running, LogRecord("ERROR", 141, command, "", <<>>)>>]
        ELSE [exc |-> "", value |-> output, log |-> <<running>>]

\* run_gh_command(command, *args) when subprocess.run does `run`
run_gh_command(command, args, run) ==
    LET cmd == <<gh_cli_path, "-H", api_version_header, command>> \o args
        built == LogRecord("DEBUG", 123, command, "", <<>>)
        body == TryBody(command, run.stdout)
        h == Handler(body.exc)
    IN  IF ~run.started
        THEN [argv |-> cmd, result |-> PyNone, raised |-> run.error, log |-> <<built>>]
        ELSE IF body.exc = ""
        THEN [argv |-> cmd, result |-> body.value, raised |-> "", log |-> <<built>> \o body.log]
        ELSE IF h = 0
        THEN [argv |-> cmd, result |-> PyNone, raised |-> body.exc, log |-> <<built>> \o body.log]
        ELSE [argv |-> cmd, result |-> PyNone, raised |-> "",
              log |-> <<built>> \o body.log \o
                      <<IF ExceptClauses[h].does = "log_cli_error"
                        THEN log_cli_error(command, body.exc)
                        ELSE LogRecord("DEBUG", 153, command, "", <<>>)>>]

\* run_gh_api_get(api_url)
run_gh_api_get(api_url, run) == run_gh_command("api", <<api_url>>, run)

\* run_gh_api_post(api_url, *args)
run_gh_api_post(api_url, args, run) == run_gh_command("api", <<api_url, "-X", "POST">> \o args, run)

\* Variant: the listing of the authenticated user, without the login
ReposUrlAuthenticated(login) == "/user/repos"

ReposUrl(login) == "/users/" \o login \o "/repos"

\* pull_all_user_repos()
pull_all_user_repos(run) == run_gh_api_get(ReposUrl(username), run)

\* [permission for permission in repo['permissions'] if permission]: iterating a dict
\* yields its keys, and the filter tests the key
PermissionKept(p) == p.name # ""

RECURSIVE PermissionList(_)
PermissionList(ps) ==
    IF ps = <<>> THEN <<>>
    ELSE PermissionList(SubSeq(ps, 1, Len(ps) - 1))
         \o (IF PermissionKept(ps[Len(ps)]) THEN <<ps[Len(ps)].name>> ELSE <<>>)

\* The dict comprehension over a list of repository records: a later record with the
\* same full_name replaces the earlier entry
RECURSIVE IndexOf(_)
IndexOf(items) ==
    IF items = <<>> THEN EmptyIndex
    ELSE LET front == IndexOf(SubSeq(items, 1, Len(items) - 1))
             repo == items[Len(items)]
         IN  [k \in DOMAIN front \cup {repo.full_name} |->
                 IF k = repo.full_name THEN PermissionList(repo.permissions) ELSE front[k]]

\* Variant: a missing or non-list repository listing gives an empty index
setup_repo_index_or_empty(repos) ==
    CASE repos.kind = "list" -> [exc |-> "", value |-> IndexOf(repos.items)]
      [] OTHER -> [exc |-> "", value |-> EmptyIndex]

\* setup_repo_index() on self.repos_raw
setup_repo_index(repos) ==
    CASE repos.kind = "list" -> [exc |-> "", value |-> IndexOf(repos.items)]
      [] repos.kind = "dict" /\ repos.members = <<>> -> [exc |-> "", value |-> EmptyIndex]
      [] OTHER -> [exc |-> "TypeError", value |-> EmptyIndex]

Step(op, out) == [op |-> op, out |-> out]

\* The name of a gh invocation: its command and its first argument
CallName(cmd) == cmd[4] \o " " \o cmd[5]

\* value[key] as Python evaluates it
Subscript(value, key) ==
    CASE value.kind = "dict" /\ key \in Keys(value) -> [exc |-> "", value |-> Get(value, key).s]
      [] value.kind = "dict" -> [exc |-> "KeyError", value |-> ""]
      [] OTHER -> [exc |-> "TypeError", value |-> ""]

\* Variant: the failure is logged and get_gh_cli_path returns without sys.exit
LookupFailedReturns ==
    [pc |-> "get_user", exit_code |-> -1, uncaught |-> "",
     log |-> <<LogRecord("ERROR", 86, "which", "CalledProcessError", <<>>)>>]

\* get_gh_cli_path() when which fails with CalledProcessError: logger.error, sys.exit(1)
LookupFailed ==
    [pc |-> "exited", exit_code |-> 1, uncaught |-> "SystemExit",
     log |-> <<LogRecord("ERROR", 86, "which", "CalledProcessError", <<>>)>>]

Init ==
    /\ pc = "start"
    /\ attrs = {"logger"}
    /\ gh_cli_path = ""
    /\ _user = PyNone
    /\ username = ""
    /\ repos_raw = PyNone
    /\ repo_perm_index = EmptyIndex
    /\ exit_code = -1
    /\ argv = <<>>
    /\ child = NoChild
    /\ result = PyNone
    /\ raised = ""
    /\ uncaught = ""
    /\ log = <<>>
    /\ steps = <<>>

\* __init__, line 43: self.gh_cli_path = self.get_gh_cli_path()
GetGhCliPath ==
    /\ pc = "start"
    /\ \E which \in WhichOutcomes :
          CASE which.exc = "" ->
                  /\ gh_cli_path' = which.path
                  /\ attrs' = attrs \cup {"gh_cli_path"}
                  /\ pc' = "get_user"
                  /\ UNCHANGED <<exit_code, uncaught, log>>
            [] which.exc = "CalledProcessError" ->
                  /\ pc' = LookupFailed.pc
                  /\ exit_code' = LookupFailed.exit_code
                  /\ uncaught' = LookupFailed.uncaught
                  /\ log' = LookupFailed.log
                  /\ UNCHANGED <<gh_cli_path, attrs>>
            [] OTHER ->
                  /\ pc' = "raised"
                  /\ exit_code' = 1
                  /\ uncaught' = which.exc
                  /\ UNCHANGED <<gh_cli_path, attrs, log>>
    /\ steps' = Append(steps, Step("get_gh_cli_path", ""))
    /\ UNCHANGED <<_user, username, repos_raw, repo_perm_index, argv, child, result, raised>>

\* What every gh invocation leaves behind: the call's record, and a dead process when
\* the call raised
Invoked(r, run) ==
    /\ argv' = r.argv
    /\ child' = run
    /\ result' = r.result
    /\ raised' = r.raised
    /\ uncaught' = r.raised
    /\ log' = r.log
    /\ exit_code' = IF r.raised # "" THEN 1 ELSE exit_code

\* __init__, lines 44-46: self._user = self.run_gh_command("api", "/user")
InitGetUser ==
    /\ pc = "get_user"
    /\ \E run \in Children :
          LET r == run_gh_command("api", <<"/user">>, run)
          IN  /\ Invoked(r, run)
              /\ steps' = Append(steps, Step(CallName(r.argv), run.stdout))
              /\ IF r.raised # ""
                 THEN /\ pc' = "raised"
                      /\ attrs' = attrs \cup {"_api_version", "api_version_header"}
                      /\ UNCHANGED _user
                 ELSE /\ pc' = "extract_login"
                      /\ attrs' = attrs \cup {"_api_version", "api_version_header", "_user"}
                      /\ _user' = r.result
    /\ UNCHANGED <<gh_cli_path, username, repos_raw, repo_perm_index>>

\* __init__, line 47: self.username = self._user['login']
InitExtractLogin ==
    /\ pc = "extract_login"
    /\ LET login == Subscript(_user, "login")
       IN  IF login.exc # ""
           THEN /\ pc' = "raised"
                /\ uncaught' = login.exc
                /\ exit_code' = 1
                /\ UNCHANGED <<username, attrs>>
           ELSE /\ pc' = "pull_repos"
                /\ username' = login.value
                /\ attrs' = attrs \cup {"username"}
                /\ UNCHANGED <<uncaught, exit_code>>
    /\ steps' = Append(steps, Step("login", ""))
    /\ UNCHANGED <<gh_cli_path, _user, repos_raw, repo_perm_index, argv, child, result,
                   raised, log>>

\* __init__, line 48: self.repos_raw = self.pull_all_user_repos()
InitPullRepos ==
    /\ pc = "pull_repos"
    /\ \E run \in Children :
          LET r == pull_all_user_repos(run)
          IN  /\ Invoked(r, run)
              /\ steps' = Append(steps, Step(CallName(r.argv), run.stdout))
              /\ IF r.raised # ""
                 THEN /\ pc' = "raised"
                      /\ UNCHANGED <<repos_raw, attrs>>
                 ELSE /\ pc' = "build_index"
                      /\ attrs' = attrs \cup {"repos_raw"}
                      /\ repos_raw' = r.result
    /\ UNCHANGED <<gh_cli_path, _user, username, repo_perm_index>>

\* __init__, line 49: self.repo_perm_index = self.setup_repo_index()
InitSetupRepoIndex ==
    /\ pc = "build_index"
    /\ LET index == setup_repo_index(repos_raw)
       IN  IF index.exc # ""
           THEN /\ pc' = "raised"
                /\ uncaught' = index.exc
                /\ exit_code' = 1
                /\ UNCHANGED <<repo_perm_index, attrs>>
           ELSE /\ pc' = "ready"
                /\ repo_perm_index' = index.value
                /\ attrs' = attrs \cup {"repo_perm_index"}
                /\ UNCHANGED <<uncaught, exit_code>>
    /\ steps' = Append(steps, Step("setup_repo_index", ""))
    /\ UNCHANGED <<gh_cli_path, _user, username, repos_raw, argv, child, result,
                   raised, log>>

\* The calls a caller makes on the constructed client
Commands == {[command |-> "api", args |-> <<"/user">>], [command |-> "--help", args |-> <<>>]}

GetUrls == {"/search/repositories?q=user:d-brtn"}

PostCalls == {[api_url |-> "/some/endpoint", args |-> <<"--field", "value">>]}

\* gh.run_gh_command(command, *args)
RunGhCommand ==
    /\ pc = "ready"
    /\ \E c \in Commands, run \in Children :
          LET r == run_gh_command(c.command, c.args, run)
          IN  /\ Invoked(r, run)
              /\ pc' = IF r.raised # "" THEN "raised" ELSE "returned"
    /\ UNCHANGED <<client, steps>>

\* gh.run_gh_api_get(api_url)
RunGhApiGet ==
    /\ pc = "ready"
    /\ \E api_url \in GetUrls, run \in Children :
          LET r == run_gh_api_get(api_url, run)
          IN  /\ Invoked(r, run)
              /\ pc' = IF r.raised # "" THEN "raised" ELSE "returned"
    /\ UNCHANGED <<client, steps>>

\* gh.run_gh_api_post(api_url, *args)
RunGhApiPost ==
    /\ pc = "ready"
    /\ \E c \in PostCalls, run \in Children :
          LET r == run_gh_api_post(c.api_url, c.args, run)
          IN  /\ Invoked(r, run)
              /\ pc' = IF r.raised # "" THEN "raised" ELSE "returned"
    /\ UNCHANGED <<client, steps>>

\* Variant: the call stores the list it pulled and rebuilds the index from it
PullAllUserReposRefresh ==
    /\ pc = "ready"
    /\ \E run \in Children :
          LET r == pull_all_user_repos(run)
          IN  /\ Invoked(r, run)
              /\ pc' = IF r.raised # "" THEN "raised" ELSE "returned"
              /\ repos_raw' = IF r.raised # "" THEN repos_raw ELSE r.result
              /\ repo_perm_index' =
                    IF r.raised = "" /\ setup_repo_index(r.result).exc = ""
                    THEN setup_repo_index(r.result).value
                    ELSE repo_perm_index
    /\ UNCHANGED <<attrs, gh_cli_path, _user, username, steps>>

\* gh.pull_all_user_repos(): the list is returned, not stored
PullAllUserRepos ==
    /\ pc = "ready"
    /\ \E run \in Children :
          LET r == pull_all_user_repos(run)
          IN  /\ Invoked(r, run)
              /\ pc' = IF r.raised # "" THEN "raised" ELSE "returned"
    /\ UNCHANGED <<client, steps>>

\* The caller takes the returned value and goes on: the call's frame is gone
Resume ==
    /\ pc = "returned"
    /\ pc' = "ready"
    /\ argv' = <<>>
    /\ child' = NoChild
    /\ result' = PyNone
    /\ log' = <<>>
    /\ UNCHANGED <<client, steps, raised, uncaught, exit_code>>

Next ==
    \/ GetGhCliPath
    \/ InitGetUser
    \/ InitExtractLogin
    \/ InitPullRepos
    \/ InitSetupRepoIndex
    \/ RunGhCommand
    \/ RunGhApiGet
    \/ RunGhApiPost
    \/ PullAllUserRepos
    \/ Resume

Spec == Init /\ [][Next]_vars

(***************************************************************************)
(* Properties.                                                             *)
(***************************************************************************)
InInit == pc \in {"start", "get_user", "extract_login", "pull_repos", "build_index"}

\* The last call ran a child that printed a JSON object with a status member
StatusAnswer ==
    /\ child.started
    /\ LET parsed == json_loads(child.stdout)
       IN  /\ parsed.exc = ""
           /\ parsed.value.kind = "dict"
           /\ "status" \in Keys(parsed.value)

AnsweredStatus == Get(json_loads(child.stdout).value, "status")

SuccessStatuses == {JStr("200"), JStr("201"), JStr("204")}

\* The last call reported through log_cli_error
ErrorLogged == \E i \in DOMAIN log : log[i].level = "ERROR" /\ log[i].line = 97

RECURSIVE TruthyNames(_)
TruthyNames(ps) ==
    IF ps = <<>> THEN <<>>
    ELSE TruthyNames(SubSeq(ps, 1, Len(ps) - 1))
         \o (IF ps[Len(ps)].value THEN <<ps[Len(ps)].name>> ELSE <<>>)

\* C1: the permission index maps every repository's full_name to exactly the permission
\* names whose value in that repository's permissions mapping is truthy; a permission
\* whose value is false never appears.
C1_IndexHoldsTruthyPermissions ==
    ("repo_perm_index" \in attrs /\ repos_raw.kind = "list") =>
        /\ DOMAIN repo_perm_index = {repos_raw.items[i].full_name : i \in DOMAIN repos_raw.items}
        /\ \A i \in DOMAIN repos_raw.items :
              (\A j \in DOMAIN repos_raw.items :
                    j > i => repos_raw.items[j].full_name # repos_raw.items[i].full_name)
              => repo_perm_index[repos_raw.items[i].full_name]
                    = TruthyNames(repos_raw.items[i].permissions)

\* C2: when the child prints a JSON object whose status is "200", "201" or "204",
\* run_gh_command returns the parsed object unchanged and takes no error path: nothing
\* is raised and nothing is written to the error log.
C2_SuccessStatusReturnsObject ==
    (StatusAnswer /\ AnsweredStatus \in SuccessStatuses) =>
        /\ result = json_loads(child.stdout).value
        /\ Dumps(result) = child.stdout
        /\ raised = ""
        /\ \A i \in DOMAIN log : log[i].level # "ERROR"

C2_Witness ==
    /\ StatusAnswer
    /\ AnsweredStatus = JStr("204")
    /\ "login" \in Keys(result)
    /\ pc = "returned"

\* C3: when the child prints a JSON object whose status is "404", "422" or anything else
\* outside "200", "201", "204", run_gh_command returns None: the ValueError is caught in
\* the call, is reported through log_cli_error, and does not reach the caller.
C3_ErrorStatusReturnsNone ==
    (StatusAnswer /\ AnsweredStatus \notin SuccessStatuses) =>
        /\ result = PyNone
        /\ raised = ""
        /\ \E i \in DOMAIN log :
              log[i].level = "ERROR" /\ log[i].line = 97 /\ log[i].error = "ValueError"

C3_Witness ==
    /\ StatusAnswer
    /\ AnsweredStatus = JStr("422")
    /\ result = PyNone
    /\ pc = "returned"

\* C4: when the child's output is not valid JSON (json.loads rejects it, the empty
\* output included), run_gh_command returns None and raises nothing to the caller.
C4_NonJsonReturnsNone ==
    (child.started /\ json_loads(child.stdout).exc # "") =>
        /\ result = PyNone
        /\ raised = ""

C4_Witness ==
    /\ child.started
    /\ child.stdout = ""
    /\ result = PyNone
    /\ raised = ""
    /\ pc = "returned"

\* C5: if locating gh fails during construction, the process exits with a non-zero
\* status and no gh subprocess is ever invoked in that run.
C5_LookupFailureExits ==
    (steps # <<>> /\ "gh_cli_path" \notin attrs) =>
        /\ pc \in {"exited", "raised"}
        /\ exit_code > 0
        /\ argv = <<>>
        /\ child = NoChild
        /\ \A i \in DOMAIN steps : steps[i].op = "get_gh_cli_path"

C5_Witness ==
    /\ pc = "exited"
    /\ exit_code = 1
    /\ uncaught = "SystemExit"
    /\ argv = <<>>

\* The text answers api /user with an identity: a JSON object with a login that
\* run_gh_command hands back (it carries no status outside "200", "201", "204")
IdentityAnswer(text) ==
    LET parsed == json_loads(text)
    IN  /\ parsed.exc = ""
        /\ parsed.value.kind = "dict"
        /\ "login" \in Keys(parsed.value)
        /\ "status" \in Keys(parsed.value)
              => Get(parsed.value, "status") \in SuccessStatuses

ListAnswer(text) ==
    LET parsed == json_loads(text)
    IN  parsed.exc = "" /\ parsed.value.kind = "list"

AnsweredLogin == Get(json_loads(steps[2].out).value, "login").s

OctocatUser == "{\"login\":\"octocat\"}"

OctocatRepos == "[{\"full_name\":\"octocat/repo1\",\"permissions\":{\"admin\":true}}]"

\* C6: when gh is found, api /user is answered with an identity whose login is L and
\* api /users/L/repos with a JSON list of repository records, construction performs its
\* steps once each in the order locate, api /user, login, api /users/L/repos, build
\* index, and ends with username = L and one index key per repository full_name; for
\* the octocat answers the index is {"octocat/repo1": ["admin"]}.
C6_ConstructionCompletes ==
    (~InInit /\ Len(steps) >= 2 /\ IdentityAnswer(steps[2].out)) =>
        /\ Len(steps) >= 4
        /\ username = AnsweredLogin
        /\ ListAnswer(steps[4].out) =>
              /\ pc \in {"ready", "returned", "raised"}
              /\ {"gh_cli_path", "_user", "username", "repos_raw", "repo_perm_index"}
                    \subseteq attrs
              /\ [i \in DOMAIN steps |-> steps[i].op]
                    = <<"get_gh_cli_path", "api /user", "login",
                        "api /users/" \o AnsweredLogin \o "/repos", "setup_repo_index">>
              /\ _user = json_loads(steps[2].out).value
              /\ repos_raw = json_loads(steps[4].out).value
              /\ DOMAIN repo_perm_index
                    = {repos_raw.items[i].full_name : i \in DOMAIN repos_raw.items}
              /\ (steps[2].out = OctocatUser /\ steps[4].out = OctocatRepos) =>
                    /\ username = "octocat"
                    /\ repo_perm_index = [k \in {"octocat/repo1"} |-> <<"admin">>]

C6_Witness ==
    /\ pc = "ready"
    /\ Len(steps) = 5
    /\ steps[2].out = OctocatUser
    /\ steps[4].out = OctocatRepos
    /\ username = "octocat"
    /\ repo_perm_index = [k \in {"octocat/repo1"} |-> <<"admin">>]

\* C7: when the child process cannot be run (subprocess.run raises), run_gh_command
\* logs the failure through log_cli_error, returns None and raises nothing to the
\* caller.
C7_RunFailureIsLogged ==
    (~child.started /\ child.error # "") =>
        /\ raised = ""
        /\ result = PyNone
        /\ ErrorLogged

\* C8: when the child's output is not valid JSON, the condition is logged at debug
\* level only and is never reported through log_cli_error.
C8_NonJsonLoggedAtDebugOnly ==
    (child.started /\ json_loads(child.stdout).exc # "") =>
        /\ ~ErrorLogged
        /\ \A i \in DOMAIN log : log[i].level = "DEBUG"

\* C9: if the repository listing during construction returns None, construction goes on
\* to the index-building step and fails there with an exception: repo_perm_index is
\* never set while repos_raw is None, so no client object is produced.
C9_NoIndexWithoutRepos ==
    ("repos_raw" \in attrs /\ repos_raw = PyNone) =>
        /\ "repo_perm_index" \notin attrs
        /\ \/ pc = "build_index"
           \/ /\ pc = "raised"
              /\ uncaught = "TypeError"
              /\ exit_code > 0
              /\ steps[Len(steps)].op = "setup_repo_index"

C9_Witness ==
    /\ pc = "raised"
    /\ uncaught = "TypeError"
    /\ "repos_raw" \in attrs
    /\ repos_raw = PyNone
    /\ "repo_perm_index" \notin attrs
    /\ steps[Len(steps)].op = "setup_repo_index"

\* C10: after construction, no call of run_gh_command, run_gh_api_get, run_gh_api_post
\* or pull_all_user_repos, whatever its outcome, changes username, repos_raw,
\* repo_perm_index or gh_cli_path; a later pull_all_user_repos does not refresh the
\* stored list or index.
C10_CallsKeepClient ==
    [][~InInit => /\ username' = username
                  /\ repos_raw' = repos_raw
                  /\ repo_perm_index' = repo_perm_index
                  /\ gh_cli_path' = gh_cli_path
                  /\ _user' = _user
                  /\ attrs' = attrs]_vars

C10_Witness ==
    /\ pc = "returned"
    /\ argv = <<gh_cli_path, "-H", api_version_header, "api", ReposUrl(username)>>
    /\ result.kind = "list"
    /\ repos_raw.kind = "list"
    /\ result # repos_raw
    /\ DOMAIN repo_perm_index = {repos_raw.items[i].full_name : i \in DOMAIN repos_raw.items}
    /\ DOMAIN repo_perm_index # {result.items[i].full_name : i \in DOMAIN result.items}
====
